---------------------------- MODULE Spec2Model ----------------------------
(***************************************************************************)
(* Model of cdumay_error_json (src/src/lib.rs): the JSON error kinds, the  *)
(* typed errors bound to them, JsonError::convert, and the convert_result! *)
(* call-site helper.                                                       *)
(*                                                                         *)
(* Three specifications share the registry and the pure helpers:           *)
(*   Spec        - concurrent callers of JsonError::convert, one builder   *)
(*                 step of the call chain per action;                      *)
(*   SpecBuilder - one typed error refined by an arbitrary chain of        *)
(*                 set_message / set_details calls;                        *)
(*   SpecWrap    - convert_result! applied to a Result.                    *)
(***************************************************************************)
EXTENDS Naturals, Sequences, FiniteSets

\* ------------------------------------------------------------------ bounds

\* Longest message text drawn as an input.
MaxLen == 1

\* Longest chain of setter calls applied to one typed error.
MaxOps == 3

\* The callers that run JsonError::convert concurrently.
Callers == {"t1", "t2"}

\* Characters of message texts; a String is a sequence of them.
Alphabet == {"a", "b"}

Texts == UNION {[1..n -> Alphabet] : n \in 0..MaxLen}

\* Keys and values of a context map (BTreeMap<String, serde_value::Value>).
Keys == {"k1", "k2"}

Vals == {"v1", "v2"}

Contexts == UNION {[D -> Vals] : D \in SUBSET Keys}

EmptyMap == [k \in {} |-> "v1"]

\* Values a successful parse can carry.
OkValues == {"{}", "[]"}

\* ---------------------------------------------------------- kind registry

\* define_kinds! { Name = (message_id, code, description), ... }
JsonSyntax == [message_id |-> "JSON-00001", code |-> 400, description |-> "Syntax Error"]

JsonData == [message_id |-> "JSON-00002", code |-> 400, description |-> "Invalid JSON data"]

JsonEofStatus400 == [message_id |-> "JSON-00003", code |-> 400, description |-> "Reached the end of the input data"]

JsonEof == [message_id |-> "JSON-00003", code |-> 500, description |-> "Reached the end of the input data"]

JsonIo == [message_id |-> "JSON-00004", code |-> 500, description |-> "Syntax Error"]

Kinds == {JsonSyntax, JsonData, JsonEof, JsonIo}

NoKind == [message_id |-> "", code |-> 0, description |-> ""]

\* ------------------------------------------------------------ typed errors

Bindings == {"IoError", "SyntaxError", "DataError", "EofError"}

BoundKindDataAsSyntax(binding) ==
    CASE binding = "IoError" -> JsonIo
      [] binding = "SyntaxError" -> JsonSyntax
      [] binding = "DataError" -> JsonSyntax
      [] binding = "EofError" -> JsonEof

BoundKindIoAsEof(binding) ==
    CASE binding = "IoError" -> JsonEof
      [] binding = "SyntaxError" -> JsonSyntax
      [] binding = "DataError" -> JsonData
      [] binding = "EofError" -> JsonEof

\* define_errors! { IoError = JsonIo, SyntaxError = JsonSyntax, ... }
BoundKind(binding) ==
    CASE binding = "IoError" -> JsonIo
      [] binding = "SyntaxError" -> JsonSyntax
      [] binding = "DataError" -> JsonData
      [] binding = "EofError" -> JsonEof

\* X::new(): the typed error pinned to its kind, message and details empty.
new(binding) ==
    [binding |-> binding, kind |-> BoundKind(binding), message |-> <<>>, details |-> EmptyMap]

set_message_append(e, m) == [e EXCEPT !.message = e.message \o m]

\* .set_message(m): the value with message replaced.
set_message(e, m) == [e EXCEPT !.message = m]

set_details_merge(e, d) ==
    [e EXCEPT !.details =
        [k \in (DOMAIN e.details) \cup (DOMAIN d) |->
            IF k \in DOMAIN d THEN d[k] ELSE e.details[k]]]

\* .set_details(d): the value with details replaced.
set_details(e, d) == [e EXCEPT !.details = d]

\* .into(): the common Error value (kind, message, details).
into(e) == [kind |-> e.kind, message |-> e.message, details |-> e.details]

NoValue == [binding |-> "none", kind |-> NoKind, message |-> <<>>, details |-> EmptyMap]

NoError == [kind |-> NoKind, message |-> <<>>, details |-> EmptyMap]

\* ------------------------------------------------------------ raw failure

\* serde_json::error::Category
Category == {"Io", "Syntax", "Data", "Eof"}

RawFailures == [category : Category]

NoFailure == [category |-> "none"]

\* err.classify()
classify(err) == err.category

\* ---------------------------------------------------------------- convert

BindingForIoAsSyntax(cat) ==
    CASE cat = "Io" -> "SyntaxError"
      [] cat = "Syntax" -> "SyntaxError"
      [] cat = "Data" -> "DataError"
      [] cat = "Eof" -> "EofError"

BindingForSyntaxAsData(cat) ==
    CASE cat = "Io" -> "IoError"
      [] cat = "Syntax" -> "DataError"
      [] cat = "Data" -> "DataError"
      [] cat = "Eof" -> "EofError"

\* The arms of `match err.classify()`: which typed error each category builds.
BindingFor(cat) ==
    CASE cat = "Io" -> "IoError"
      [] cat = "Syntax" -> "SyntaxError"
      [] cat = "Data" -> "DataError"
      [] cat = "Eof" -> "EofError"

\* JsonError::convert run by one caller on its own, start to finish.
convert(err, txt, ctx) ==
    into(set_details(set_message(new(BindingFor(classify(err))), txt), ctx))

VARIABLES
    pc, err, text, context, val, result,
    b, prev, lastOp, prevOp, nops,
    wpc, win, wctx, wmsg, wout, wconv

convVars == <<pc, err, text, context, val, result>>

buildVars == <<b, prev, lastOp, prevOp, nops>>

wrapVars == <<wpc, win, wctx, wmsg, wout, wconv>>

vars == <<pc, err, text, context, val, result, b, prev, lastOp, prevOp, nops, wpc, win, wctx, wmsg, wout, wconv>>

NoOp == [name |-> "none", m |-> <<>>, d |-> EmptyMap]

NoOpt == [some |-> FALSE, m |-> <<>>, d |-> EmptyMap]

NoResult == [ok |-> FALSE, value |-> "", err |-> NoFailure, error |-> NoError]

Init ==
    /\ pc = [c \in Callers |-> "idle"]
    /\ err = [c \in Callers |-> NoFailure]
    /\ text = [c \in Callers |-> <<>>]
    /\ context = [c \in Callers |-> EmptyMap]
    /\ val = [c \in Callers |-> NoValue]
    /\ result = [c \in Callers |-> NoError]
    /\ b = NoValue
    /\ prev = NoValue
    /\ lastOp = NoOp
    /\ prevOp = NoOp
    /\ nops = 0
    /\ wpc = "idle"
    /\ win = NoResult
    /\ wctx = NoOpt
    /\ wmsg = NoOpt
    /\ wout = NoResult
    /\ wconv = 0

\* ------------------------------------------- Spec: concurrent convert calls

\* A caller enters convert(err, text, context); the match on err.classify()
\* selects an arm and the arm's X::new() builds the typed error.
Call(c) ==
    /\ pc[c] = "idle"
    /\ \E e \in RawFailures, t \in Texts, x \in Contexts :
        /\ err' = [err EXCEPT ![c] = e]
        /\ text' = [text EXCEPT ![c] = t]
        /\ context' = [context EXCEPT ![c] = x]
        /\ val' = [val EXCEPT ![c] = new(BindingFor(classify(e)))]
    /\ pc' = [pc EXCEPT ![c] = "new"]
    /\ UNCHANGED <<result, buildVars, wrapVars>>

SetMessageStepShared(c) ==
    /\ pc[c] = "new"
    /\ val' = [d \in Callers |->
                 IF pc[d] \in {"new", "msg", "det"} THEN set_message(val[d], text[c]) ELSE val[d]]
    /\ pc' = [pc EXCEPT ![c] = "msg"]
    /\ UNCHANGED <<err, text, context, result, buildVars, wrapVars>>

\* .set_message(text)
SetMessageStep(c) ==
    /\ pc[c] = "new"
    /\ val' = [val EXCEPT ![c] = set_message(val[c], text[c])]
    /\ pc' = [pc EXCEPT ![c] = "msg"]
    /\ UNCHANGED <<err, text, context, result, buildVars, wrapVars>>

SetDetailsStepDropped(c) ==
    /\ pc[c] = "msg"
    /\ val' = [val EXCEPT ![c] = set_details(val[c], EmptyMap)]
    /\ pc' = [pc EXCEPT ![c] = "det"]
    /\ UNCHANGED <<err, text, context, result, buildVars, wrapVars>>

\* .set_details(context)
SetDetailsStep(c) ==
    /\ pc[c] = "msg"
    /\ val' = [val EXCEPT ![c] = set_details(val[c], context[c])]
    /\ pc' = [pc EXCEPT ![c] = "det"]
    /\ UNCHANGED <<err, text, context, result, buildVars, wrapVars>>

\* .into(), the value convert returns
IntoStep(c) ==
    /\ pc[c] = "det"
    /\ result' = [result EXCEPT ![c] = into(val[c])]
    /\ val' = [val EXCEPT ![c] = NoValue]
    /\ pc' = [pc EXCEPT ![c] = "done"]
    /\ UNCHANGED <<err, text, context, buildVars, wrapVars>>

\* The caller drops the returned error and is free to call again.
Drop(c) ==
    /\ pc[c] = "done"
    /\ pc' = [pc EXCEPT ![c] = "idle"]
    /\ err' = [err EXCEPT ![c] = NoFailure]
    /\ text' = [text EXCEPT ![c] = <<>>]
    /\ context' = [context EXCEPT ![c] = EmptyMap]
    /\ result' = [result EXCEPT ![c] = NoError]
    /\ UNCHANGED <<val, buildVars, wrapVars>>

Next ==
    \/ \E c \in Callers : Call(c)
    \/ \E c \in Callers : SetMessageStep(c)
    \/ \E c \in Callers : SetDetailsStep(c)
    \/ \E c \in Callers : IntoStep(c)
    \/ \E c \in Callers : Drop(c)

Spec == Init /\ [][Next]_vars

\* ------------------------------------ SpecBuilder: one typed error, refined

\* X::new() for one of the four typed errors.
BuilderNew ==
    /\ b.binding = "none"
    /\ \E x \in Bindings : b' = new(x)
    /\ prev' = NoValue
    /\ lastOp' = NoOp
    /\ prevOp' = NoOp
    /\ nops' = 0
    /\ UNCHANGED <<convVars, wrapVars>>

\* e.set_message(m) on the value built so far.
BuilderSetMessage ==
    /\ b.binding # "none"
    /\ nops < MaxOps
    /\ \E m \in Texts :
        /\ b' = set_message(b, m)
        /\ lastOp' = [name |-> "set_message", m |-> m, d |-> EmptyMap]
    /\ prev' = b
    /\ prevOp' = lastOp
    /\ nops' = nops + 1
    /\ UNCHANGED <<convVars, wrapVars>>

\* e.set_details(d) on the value built so far.
BuilderSetDetails ==
    /\ b.binding # "none"
    /\ nops < MaxOps
    /\ \E d \in Contexts :
        /\ b' = set_details(b, d)
        /\ lastOp' = [name |-> "set_details", m |-> <<>>, d |-> d]
    /\ prev' = b
    /\ prevOp' = lastOp
    /\ nops' = nops + 1
    /\ UNCHANGED <<convVars, wrapVars>>

\* The value goes out of scope.
BuilderDrop ==
    /\ b.binding # "none"
    /\ b' = NoValue
    /\ prev' = NoValue
    /\ lastOp' = NoOp
    /\ prevOp' = NoOp
    /\ nops' = 0
    /\ UNCHANGED <<convVars, wrapVars>>

NextBuilder ==
    \/ BuilderNew
    \/ BuilderSetMessage
    \/ BuilderSetDetails
    \/ BuilderDrop

SpecBuilder == Init /\ [][NextBuilder]_vars

\* ---------------------------------------------- SpecWrap: convert_result!

SomeCtx(x) == [some |-> TRUE, m |-> <<>>, d |-> x]

SomeMsg(t) == [some |-> TRUE, m |-> t, d |-> EmptyMap]

Results ==
    {[ok |-> TRUE, value |-> v, err |-> NoFailure, error |-> NoError] : v \in OkValues}
        \cup {[ok |-> FALSE, value |-> "", err |-> e, error |-> NoError] : e \in RawFailures}

\* convert_result!(result [, context [, text]]): Ok passes through untouched;
\* Err is mapped through the converter, with the supplied text and context,
\* an empty context when none is given, and the failure's own text (any
\* text, here) when no text is given.
ConvertResult ==
    /\ wpc = "idle"
    /\ \E r \in Results,
          x \in {NoOpt} \cup {SomeCtx(y) : y \in Contexts},
          t \in {NoOpt} \cup {SomeMsg(u) : u \in Texts},
          own \in Texts :
        /\ x.some = FALSE => t.some = FALSE
        /\ t.some => own = <<>>
        /\ win' = r
        /\ wctx' = x
        /\ wmsg' = t
        /\ IF r.ok
             THEN /\ wout' = r
                  /\ wconv' = 0
             ELSE /\ wout' = [ok |-> FALSE, value |-> "", err |-> NoFailure,
                              error |-> convert(r.err,
                                                IF t.some THEN t.m ELSE own,
                                                IF x.some THEN x.d ELSE EmptyMap)]
                  /\ wconv' = 1
    /\ wpc' = "done"
    /\ UNCHANGED <<convVars, buildVars>>

\* The caller consumes the converted Result.
WrapDrop ==
    /\ wpc = "done"
    /\ wpc' = "idle"
    /\ win' = NoResult
    /\ wctx' = NoOpt
    /\ wmsg' = NoOpt
    /\ wout' = NoResult
    /\ wconv' = 0
    /\ UNCHANGED <<convVars, buildVars>>

NextWrap ==
    \/ ConvertResult
    \/ WrapDrop

SpecWrap == Init /\ [][NextWrap]_vars

\* ------------------------------------------------------------- properties

\* The dispatch table of the specification: classification -> identifier.
TableId(cat) ==
    CASE cat = "Io" -> "JSON-00004"
      [] cat = "Syntax" -> "JSON-00001"
      [] cat = "Data" -> "JSON-00002"
      [] cat = "Eof" -> "JSON-00003"

\* sub occurs in s as a contiguous run (str::contains).
Contains(s, sub) ==
    /\ Len(sub) <= Len(s)
    /\ \E i \in 0..(Len(s) - Len(sub)) : SubSeq(s, i + 1, i + Len(sub)) = sub

\* C1: whatever the message and the context, the error convert returns has
\* the kind identifier the dispatch table gives for the failure's
\* classification: Io -> JSON-00004, Syntax -> JSON-00001, Data -> JSON-00002,
\* Eof -> JSON-00003.
C1_KindIdByClassification ==
    \A c \in Callers :
        pc[c] = "done" => result[c].kind.message_id = TableId(classify(err[c]))

C1_Witness ==
    \E c \in Callers :
        /\ pc[c] = "done"
        /\ classify(err[c]) = "Io"
        /\ text[c] # <<>>
        /\ context[c] # EmptyMap
        /\ result[c].kind.message_id = "JSON-00004"

\* C2: the error convert returns carries status 400 for Syntax and Data and
\* status 500 for Eof and Io.
C2_StatusByClassification ==
    \A c \in Callers :
        pc[c] = "done" =>
            /\ classify(err[c]) \in {"Syntax", "Data"} => result[c].kind.code = 400
            /\ classify(err[c]) \in {"Eof", "Io"} => result[c].kind.code = 500

C2_Witness ==
    /\ pc["t1"] = "done"
    /\ classify(err["t1"]) = "Eof"
    /\ result["t1"].kind.code = 500
    /\ pc["t2"] = "done"
    /\ classify(err["t2"]) = "Data"
    /\ result["t2"].kind.code = 400

\* C3: the error convert returns has the caller's message and the caller's
\* context, verbatim; an empty context gives an empty details mapping.
C3_MessageAndDetailsVerbatim ==
    \A c \in Callers :
        pc[c] = "done" =>
            /\ result[c].message = text[c]
            /\ result[c].details = context[c]
            /\ context[c] = EmptyMap => DOMAIN result[c].details = {}

C3_Witness ==
    /\ pc["t1"] = "done"
    /\ text["t1"] # <<>>
    /\ DOMAIN context["t1"] = Keys
    /\ result["t1"].details = context["t1"]
    /\ result["t1"].message = text["t1"]
    /\ pc["t2"] = "done"
    /\ context["t2"] = EmptyMap
    /\ DOMAIN result["t2"].details = {}

\* The default taxonomy as the specification tabulates it.
DefaultTaxonomy ==
    { [message_id |-> "JSON-00001", code |-> 400, description |-> "Syntax Error"],
      [message_id |-> "JSON-00002", code |-> 400, description |-> "Invalid JSON data"],
      [message_id |-> "JSON-00003", code |-> 500, description |-> "Reached the end of the input data"],
      [message_id |-> "JSON-00004", code |-> 500, description |-> "IO Error"] }

\* C4: the registry holds exactly the four kinds of the default taxonomy,
\* with the identifier, status and description of the specification's table,
\* so every typed error built and every error returned carries one of them.
C4_RegistryVerbatim ==
    /\ Kinds = DefaultTaxonomy
    /\ \A c \in Callers : pc[c] \in {"new", "msg", "det"} => val[c].kind \in DefaultTaxonomy
    /\ \A c \in Callers : pc[c] = "done" => result[c].kind \in DefaultTaxonomy

\* C5: classification -> identifier is total and injective: every call past
\* the match holds one of the four typed errors, bound to a registered kind;
\* distinct classifications give distinct identifiers; the four typed errors
\* are bound to four distinct kinds; identifiers are unique in the registry.
C5_TotalInjective ==
    /\ \A c \in Callers :
        pc[c] \in {"new", "msg", "det"} =>
            /\ val[c].binding \in Bindings
            /\ val[c].kind \in Kinds
    /\ \A c \in Callers : pc[c] = "done" => result[c].kind \in Kinds
    /\ \A c, d \in Callers :
        (pc[c] = "done" /\ pc[d] = "done" /\ classify(err[c]) # classify(err[d]))
            => result[c].kind.message_id # result[d].kind.message_id
    /\ \A x, y \in Bindings : x # y => new(x).kind.message_id # new(y).kind.message_id
    /\ \A k, l \in Kinds : k.message_id = l.message_id => k = l

C5_Witness ==
    /\ pc["t1"] = "done"
    /\ pc["t2"] = "done"
    /\ classify(err["t1"]) = "Syntax"
    /\ classify(err["t2"]) = "Data"
    /\ result["t1"].kind.message_id # result["t2"].kind.message_id

\* C6: the setters are idempotent: the same setter applied twice in a row
\* with the same argument leaves the observable value (kind, message,
\* details) as the first application left it.
C6_SettersIdempotent ==
    (lastOp.name # "none" /\ lastOp = prevOp) => into(b) = into(prev)

C6_Witness ==
    /\ lastOp.name = "set_message"
    /\ lastOp = prevOp
    /\ lastOp.m # <<>>
    /\ b.details # EmptyMap
    /\ into(b) = into(prev)

\* C7: set_details replaces and does not merge: after set_details(a) then
\* set_details(d) the details are exactly d, and no key of a that d lacks
\* remains.
C7_DetailsReplaced ==
    lastOp.name = "set_details" =>
        /\ b.details = lastOp.d
        /\ prevOp.name = "set_details" =>
            \A k \in (DOMAIN prevOp.d) \ (DOMAIN lastOp.d) : k \notin DOMAIN b.details

C7_Witness ==
    /\ lastOp.name = "set_details"
    /\ prevOp.name = "set_details"
    /\ (DOMAIN prevOp.d) \ (DOMAIN lastOp.d) # {}
    /\ lastOp.d # EmptyMap
    /\ b.details = lastOp.d

\* C8: convert_result! returns Ok(v) unchanged without invoking the
\* converter; on Err it returns Err of the converter's error, whose kind
\* identifier follows the dispatch table with or without context and text,
\* and whose message contains the text when one is given.
C8_ConvertResult ==
    wpc = "done" =>
        IF win.ok
          THEN wout = win /\ wconv = 0
          ELSE /\ ~wout.ok
               /\ wconv = 1
               /\ wout.error.kind.message_id = TableId(classify(win.err))
               /\ wmsg.some => Contains(wout.error.message, wmsg.m)

C8_Witness ==
    /\ wpc = "done"
    /\ ~win.ok
    /\ classify(win.err) = "Syntax"
    /\ wctx.some
    /\ wmsg.some
    /\ wmsg.m # <<>>
    /\ wout.error.kind.message_id = "JSON-00001"
    /\ Contains(wout.error.message, wmsg.m)

\* C9: the kind of a typed error is the one its type is bound to, through
\* any chain of setters; set_message leaves details as they were and
\* set_details leaves message as it was.
C9_KindFixed ==
    b.binding # "none" =>
        /\ b.binding = "IoError" => b.kind = JsonIo
        /\ b.binding = "SyntaxError" => b.kind = JsonSyntax
        /\ b.binding = "DataError" => b.kind = JsonData
        /\ b.binding = "EofError" => b.kind = JsonEof
        /\ lastOp.name # "none" => (b.kind = prev.kind /\ b.binding = prev.binding)
        /\ lastOp.name = "set_message" => b.details = prev.details
        /\ lastOp.name = "set_details" => b.message = prev.message

C9_Witness ==
    /\ b.binding = "IoError"
    /\ nops = MaxOps
    /\ lastOp.name = "set_message"
    /\ prevOp.name = "set_details"
    /\ prev.details # EmptyMap
    /\ b.details = prev.details
    /\ b.message # prev.message
    /\ b.kind = JsonIo

\* What a call running alone holds at each point of convert.
Alone(c) ==
    CASE pc[c] = "new" -> new(BindingFor(classify(err[c])))
      [] pc[c] = "msg" -> set_message(new(BindingFor(classify(err[c]))), text[c])
      [] pc[c] = "det" -> set_details(set_message(new(BindingFor(classify(err[c]))), text[c]), context[c])
      [] OTHER -> NoValue

\* C10: under any interleaving of concurrent convert calls each call holds,
\* at every step and in its result, what it would hold running alone on its
\* own inputs, and calls with equal inputs return equal results.
C10_CallsIndependent ==
    /\ \A c \in Callers : val[c] = Alone(c)
    /\ \A c \in Callers :
        pc[c] = "done" => result[c] = convert(err[c], text[c], context[c])
    /\ \A c, d \in Callers :
        (pc[c] = "done" /\ pc[d] = "done" /\ err[c] = err[d]
            /\ text[c] = text[d] /\ context[c] = context[d]) => result[c] = result[d]

C10_Witness ==
    /\ pc["t1"] = "msg"
    /\ pc["t2"] = "det"
    /\ text["t1"] # text["t2"]
    /\ text["t1"] # <<>>
    /\ text["t2"] # <<>>
    /\ context["t1"] # context["t2"]
    /\ classify(err["t1"]) # classify(err["t2"])
    /\ val["t1"].message = text["t1"]
    /\ val["t2"].message = text["t2"]
    /\ val["t2"].details = context["t2"]

=============================================================================
